---- MODULE Spec2Model ----
(***************************************************************************)
(* A model of the ST7920 dashboard: the differential GDRAM writer of       *)
(* driver.py and the retained-mode drawables of graphics.py.               *)
(*                                                                         *)
(* A surface (Bitmap.words, a numpy uint16 array of shape                  *)
(* (height, width // 16)) is a sequence of rows, each a sequence of        *)
(* integers in 0..65535; row r, word c of the code is m[r+1][c+1].         *)
(***************************************************************************)
EXTENDS Integers, Sequences, FiniteSets, TLC

----------------------------------------------------------------------------
(* Program constants *)

\* bits per addressable word: `width // 16`, `x // 16`, `x % 16`
WORD_BITS == 16
\* 0xFFFF
WORD_MASK == 65535
\* clear_gdram: `for row in range(64)`
CLEAR_ROWS == 64
\* clear_gdram: `for col in range(8)`
CLEAR_WORDS == 8
\* set_gdram_address: `if row >= 32: row -= 32`
SPLIT_ROW == 32
\* set_gdram_address: `col_word += 8`
SPLIT_SHIFT == 8
\* ST7920.__init__ defaults: width=128, height=64
DEFAULT_WIDTH == 128
DEFAULT_HEIGHT == 64
\* set_instruction_set: 0x30, the function-set command
FUNCTION_SET == 48
\* set_instruction_set: `extended << 2`, `1 << 2`
RE_BIT == 4
\* set_instruction_set: `1 << 1`
G_BIT == 2

----------------------------------------------------------------------------
(* Bounds of the model *)

\* the second driver configuration: ST7920(width=16*SmallWords, height=SmallRows)
SmallWords == 2
SmallRows == 2
\* how many mutator calls (set_pixel, set_word, reverse, reset, a property
\* setter) a run makes
MaxMutations == 2
\* a transport failure hits one of the first MaxFailAt transmissions of a scan
MaxFailAt == 2

----------------------------------------------------------------------------
VARIABLES
    width,       \* ST7920.width
    height,      \* ST7920.height
    heap,        \* words of the Bitmap objects: "bmp" the live surface the
                 \* application passes to the driver, "snap" the object deepcopy made
    old_buffer,  \* ST7920.old_buffer: "None", or a reference into heap
    gdram,       \* the display's graphics RAM: <<vertical byte, horizontal byte>> -> word
    ac,          \* the display's address counter <<vertical byte, horizontal byte>>
    sent,        \* the <<row, col_word, word>> pairs the last write_gdram_buffer issued
    lastOp,      \* the operation that ran last
    raised,      \* the exception it raised, or "none"
    written,     \* history: the words passed to the last completed write_gdram_buffer
                 \* since the last completed clear_gdram; <<>> when there is none
    preWritten,  \* history: `written` as it was when the last write_gdram_buffer began
    nmut,        \* number of mutator calls made so far
    is_dirty,    \* Bitmap._is_dirty of each drawable
    parent,      \* Bitmap._parent of each drawable: "None" or a container
    children,    \* GraphicsBuffer.children of each container
    geom,        \* <<_x1, _y1, _x2, _y2>> of each Line
    blend,       \* Bitmap._blend_mode of each drawable
    lastObj,     \* the object the last operation was called on
    recomputed,  \* whether the last draw() reset and re-blended its accumulator
    prevRet,     \* history: the words the previous operation returned, when it was
                 \* a draw() of the container drawn now; <<>> otherwise
    preDirty,    \* history: _is_dirty of lastObj when the last operation began
    nadd,        \* number of add calls made so far
    fill,        \* _fill of each Rectangle and Triangle
    revRun,      \* history: how many reverse() calls on lastObj were made in a row
    revBase,     \* history: the words of lastObj when that run of reverse() calls began
    extended,    \* ST7920.extended
    graphics,    \* ST7920.graphics
    calls,       \* history: the set_instruction_set calls made since construction
    shadow,      \* history: the value last written to each pixel of the Bitmap "p"
    loop         \* the locals of the Line.draw call in progress, and the number
                 \* of set_pixel calls its loop has made

drvVars == <<width, height, old_buffer, gdram, ac, sent, written, preWritten>>
modeVars == <<extended, graphics, calls>>
gfxVars == <<is_dirty, parent, children, geom, blend, lastObj, recomputed,
             prevRet, preDirty, nadd, fill, revRun, revBase>>
vars == <<drvVars, modeVars, gfxVars, heap, lastOp, raised, nmut, shadow, loop>>

NoSurface == <<>>

\* no Line.draw call in progress
NoLoop == [pc |-> "out", x1 |-> 0, y1 |-> 0, x2 |-> 0, y2 |-> 0, dx |-> 0,
           dy |-> 0, sx |-> 0, sy |-> 0, err |-> 0, plotted |-> 0]

----------------------------------------------------------------------------
(* 16-bit word arithmetic *)

\* 1 << n
Pow2(n) == 2 ^ n

\* (w >> b) & 1
Bit(w, b) == (w \div Pow2(b)) % 2

\* 0x80 | v, for a non-negative v
Or80(v) == IF (v \div 128) % 2 = 1 THEN v ELSE v + 128

\* w | (1 << b)
OrMask(w, b) == IF Bit(w, b) = 1 THEN w ELSE w + Pow2(b)

\* w & ~(1 << b)
AndNotMask(w, b) == IF Bit(w, b) = 1 THEN w - Pow2(b) ELSE w

\* w ^ 0xFFFF on a uint16
Xor16(w) == WORD_MASK - w

----------------------------------------------------------------------------
(* Bitmap *)

\* np.zeros((height, width // 16), dtype=np.uint16)
ZeroWords(w, h) == [r \in 1..h |-> [c \in 1..(w \div WORD_BITS) |-> 0]]

BmpHeight(m) == Len(m)
BmpWordsPerRow(m) == IF Len(m) = 0 THEN 0 ELSE Len(m[1])
BmpWidth(m) == WORD_BITS * BmpWordsPerRow(m)

InBounds(m, x, y) == 0 <= x /\ x < BmpWidth(m) /\ 0 <= y /\ y < BmpHeight(m)

\* Bitmap.reset: self.words.fill(0)
ResetWords(m) == [r \in 1..Len(m) |-> [c \in 1..Len(m[r]) |-> 0]]

\* Bitmap.set_pixel on the words; out of bounds is a no-op
SetPixelWords(m, x, y, value) ==
    IF ~InBounds(m, x, y) THEN m
    ELSE LET word == x \div WORD_BITS
             bit == (WORD_BITS - 1) - (x % WORD_BITS)
         IN [m EXCEPT ![y + 1][word + 1] =
                IF value THEN OrMask(@, bit) ELSE AndNotMask(@, bit)]

\* Bitmap.set_pixel: what one call can do. Line 40, `self.words[y, word] &= ~mask`,
\* combines a uint16 with the negative Python integer ~mask: NumPy 1.x computes
\* it in a wider type and stores the cleared word, NumPy 2 raises OverflowError
\* before anything is stored and before dirty() is called.
SetPixelOutcomes(m, x, y, value) ==
    IF InBounds(m, x, y) /\ ~value
    THEN {[words |-> SetPixelWords(m, x, y, FALSE), err |-> "none"],
          [words |-> m, err |-> "OverflowError"]}
    ELSE {[words |-> SetPixelWords(m, x, y, value), err |-> "none"]}

\* Bitmap.get_pixel
GetPixel(m, x, y) ==
    IF ~InBounds(m, x, y) THEN 0
    ELSE Bit(m[y + 1][x \div WORD_BITS + 1], (WORD_BITS - 1) - (x % WORD_BITS))

\* Bitmap.set_word on the words
SetWordWords(m, v, h, value) ==
    IF 0 <= v /\ v < BmpHeight(m) /\ 0 <= h /\ h < BmpWidth(m) \div WORD_BITS
    THEN [m EXCEPT ![v + 1][h + 1] = value % (WORD_MASK + 1)]
    ELSE m

\* Bitmap.reverse: self.words ^= 0xFFFF
ReverseWords(m) == [r \in 1..Len(m) |-> [c \in 1..Len(m[r]) |-> Xor16(m[r][c])]]

----------------------------------------------------------------------------
(* The display on the far side of the SPI bus *)

\* _send: the three bytes on the wire for one command or data byte
SendFrame(byte, is_data) ==
    << 248 + (IF is_data THEN 2 ELSE 0),
       (byte % 256) - (byte % 16),
       (byte % 16) * 16 >>

\* the byte the controller reassembles from a frame
FrameByte(frame) == frame[2] + frame[3] \div 16

\* the address bytes of the controller's graphics RAM: 64 rows of 16 words
VBytes == Or80(0)..Or80(CLEAR_ROWS - 1)
HBytes == Or80(0)..Or80(2 * CLEAR_WORDS - 1)

\* the content of a GDRAM word nothing was written to since power-up
Unknown == -1

\* the word stored at GDRAM address a = <<vertical byte, horizontal byte>>
GdramAt(gd, a) == gd[a[1]][a[2]]

\* two command frames 0x80|row, 0x80|col set the address counter
DisplaySetAddress(d, f1, f2) == [d EXCEPT !.ac = <<FrameByte(f1), FrameByte(f2)>>]

\* two data frames store one word at the address counter, which then moves to
\* the next horizontal address
DisplayWriteWord(d, f1, f2) ==
    LET w == FrameByte(f1) * 256 + FrameByte(f2)
        h == d.ac[2] % 16
    IN [d EXCEPT !.gd = [@ EXCEPT ![d.ac[1]][d.ac[2]] = w],
                 !.ac = <<d.ac[1], d.ac[2] - h + ((h + 1) % 16)>>]

----------------------------------------------------------------------------
(* ST7920: graphics mode *)

\* the GDRAM address set_gdram_address selects for (row, col_word)
GdramAddressNoShift(row, col_word) ==
    IF row >= SPLIT_ROW
    THEN <<Or80(row - SPLIT_ROW), Or80(col_word)>>
    ELSE <<Or80(row), Or80(col_word)>>
GdramAddress(row, col_word) ==
    IF row >= SPLIT_ROW
    THEN <<Or80(row - SPLIT_ROW), Or80(col_word + SPLIT_SHIFT)>>
    ELSE <<Or80(row), Or80(col_word)>>

\* set_gdram_address; d is the state of the call in progress
SetGdramAddress(d, row, col_word) ==
    IF ~(0 <= row /\ row < height) THEN [d EXCEPT !.err = "ValueError"]
    ELSE IF ~(0 <= col_word /\ col_word < width \div WORD_BITS)
         THEN [d EXCEPT !.err = "ValueError"]
    ELSE LET a == GdramAddress(row, col_word)
         IN DisplaySetAddress(d, SendFrame(a[1], FALSE), SendFrame(a[2], FALSE))

\* write_gdram_word
WriteGdramWord(d, word16) ==
    DisplayWriteWord(d, SendFrame((word16 \div 256) % 256, TRUE),
                        SendFrame(word16 % 256, TRUE))

\* lines 151-152 of write_gdram_buffer: one address-set + word-write pair.
\* The transport raises in the failAt-th pair of the scan, in its address-set
\* (stage "addr") or in its word-write (stage "data"); failAt = 0: never.
Transmit(d, row, col_word, word) ==
    LET n1 == d.n + 1
        d1 == [d EXCEPT !.n = n1]
        hit == d.failAt = n1
        a == IF hit /\ d.stage = "addr" THEN [d1 EXCEPT !.err = "OSError"]
             ELSE SetGdramAddress(d1, row, col_word)
    IN IF a.err # "none" THEN a
       ELSE IF hit /\ d.stage = "data" THEN [a EXCEPT !.err = "OSError"]
       ELSE [WriteGdramWord(a, word) EXCEPT !.sent = Append(@, <<row, col_word, word>>)]

\* lines 145-150 of write_gdram_buffer: new_word != old_word, where old_word is
\* None (equal to no word) while there is no baseline
WordDiffersZeroBaseline(new_word, row, col_word) ==
    new_word # (IF old_buffer # "None"
                THEN heap[old_buffer][row + 1][col_word + 1] ELSE 0)
WordDiffers(new_word, row, col_word) ==
    IF old_buffer # "None"
    THEN new_word # heap[old_buffer][row + 1][col_word + 1]
    ELSE TRUE

\* the inner loop of write_gdram_buffer over col_word, cut short by an exception
RECURSIVE ScanCols(_, _, _, _)
ScanCols(d, bmp, row, col_word) ==
    IF col_word >= BmpWidth(bmp) \div WORD_BITS \/ d.err # "none" THEN d
    ELSE LET new_word == bmp[row + 1][col_word + 1]
         IN ScanCols(IF WordDiffers(new_word, row, col_word)
                     THEN Transmit(d, row, col_word, new_word) ELSE d,
                     bmp, row, col_word + 1)

\* the outer loop of write_gdram_buffer over row
RECURSIVE ScanRows(_, _, _)
ScanRows(d, bmp, row) ==
    IF row >= BmpHeight(bmp) \/ d.err # "none" THEN d
    ELSE ScanRows(ScanCols(d, bmp, row, 0), bmp, row + 1)

\* deepcopy(bmp): a new object with its own words
DeepCopyAlias(h, ref) == [ref |-> ref, heap |-> h]
DeepCopy(h, ref) == [ref |-> "snap", heap |-> [h EXCEPT !["snap"] = h[ref]]]

Call(failAt, stage) ==
    [gd |-> gdram, ac |-> ac, err |-> "none", n |-> 0, sent |-> <<>>,
     failAt |-> failAt, stage |-> stage]

\* write_gdram_buffer(bmp) for the live surface
WriteGdramBuffer(failAt, stage) ==
    \E d \in {ScanRows(Call(failAt, stage), heap["bmp"], 0)},
       cp \in {DeepCopy(heap, "bmp")} :
       /\ gdram' = d.gd
       /\ ac' = d.ac
       /\ sent' = d.sent
       /\ raised' = d.err
       /\ lastOp' = "write"
       /\ preWritten' = written
       /\ IF d.err = "none"
          THEN /\ heap' = cp.heap
               /\ old_buffer' = cp.ref
               /\ written' = heap["bmp"]
          ELSE UNCHANGED <<heap, old_buffer, written>>
       /\ UNCHANGED <<width, height, nmut, gfxVars, modeVars, shadow, loop>>

write_gdram_buffer == WriteGdramBuffer(0, "addr")

\* write_gdram_buffer with a transport failure in the scan
write_gdram_buffer_fails ==
    \E failAt \in 1..MaxFailAt, stage \in {"addr", "data"} :
        /\ WriteGdramBuffer(failAt, stage)
        /\ raised' = "OSError"

\* the inner loop of clear_gdram
RECURSIVE ClearCols(_, _)
ClearCols(d, col) ==
    IF col >= CLEAR_WORDS THEN d ELSE ClearCols(WriteGdramWord(d, 0), col + 1)

\* the outer loop of clear_gdram
RECURSIVE ClearRows(_, _)
ClearRows(d, row) ==
    IF row >= CLEAR_ROWS THEN d
    ELSE LET a == SetGdramAddress(d, row, 0)
         IN IF a.err # "none" THEN a ELSE ClearRows(ClearCols(a, 0), row + 1)

\* clear_gdram
clear_gdram ==
    \E d \in {ClearRows(Call(0, "addr"), 0)} :
       /\ gdram' = d.gd
       /\ ac' = d.ac
       /\ raised' = d.err
       /\ lastOp' = "clear"
       /\ sent' = <<>>
       /\ preWritten' = NoSurface
       /\ IF d.err = "none"
          THEN /\ old_buffer' = "None"
               \* the snapshot object is no longer referenced
               /\ heap' = [heap EXCEPT !["snap"] = NoSurface]
               /\ written' = NoSurface
          ELSE UNCHANGED <<old_buffer, heap, written>>
       /\ UNCHANGED <<width, height, nmut, gfxVars, modeVars, shadow, loop>>

----------------------------------------------------------------------------
(* The application mutating the live surface between frames *)

ProbeRows == {0, height - 1, height}
ProbeCols == {0, width \div WORD_BITS - 1, width \div WORD_BITS}
ProbeXs == {width - 1, width}
SetWordValues == {0, WORD_MASK + 2}

\* a mutator call on the live surface that ends as r = [words, err]
MutationOutcome(op, r) ==
    /\ nmut < MaxMutations
    /\ nmut' = nmut + 1
    /\ heap' = [heap EXCEPT !["bmp"] = r.words]
    /\ lastOp' = op
    /\ raised' = r.err
    /\ sent' = <<>>
    /\ preWritten' = NoSurface
    /\ UNCHANGED <<width, height, old_buffer, gdram, ac, written, gfxVars,
                   modeVars, shadow, loop>>

\* a mutator call that returns, leaving the words m
Mutation(op, m) == MutationOutcome(op, [words |-> m, err |-> "none"])

\* bmp.set_pixel(x, y, value)
set_pixel ==
    \E x \in ProbeXs, y \in ProbeRows, value \in BOOLEAN :
        \E r \in SetPixelOutcomes(heap["bmp"], x, y, value) :
            MutationOutcome("set_pixel", r)

\* bmp.set_word(v, h, value)
set_word ==
    \E v \in ProbeRows, h \in ProbeCols, value \in SetWordValues :
        Mutation("set_word", SetWordWords(heap["bmp"], v, h, value))

\* bmp.reverse()
reverse == Mutation("reverse", ReverseWords(heap["bmp"]))

\* bmp.reset(), the first step of every redraw into the surface
reset == Mutation("reset", ResetWords(heap["bmp"]))

----------------------------------------------------------------------------
(* Specifications *)

\* ST7920.__init__, lines 30-32: the mode flags after construction
ModeAfterConstruction ==
    /\ extended = FALSE
    /\ graphics = FALSE
    /\ calls = <<>>

Configs == {<<DEFAULT_WIDTH, DEFAULT_HEIGHT>>, <<WORD_BITS * SmallWords, SmallRows>>}

\* the drawables before any is constructed
NoDrawables ==
    /\ is_dirty = <<>>
    /\ parent = <<>>
    /\ children = <<>>
    /\ geom = <<>>
    /\ blend = <<>>
    /\ lastObj = "bmp"
    /\ recomputed = FALSE
    /\ prevRet = NoSurface
    /\ preDirty = TRUE
    /\ nadd = 0
    /\ fill = <<>>
    /\ revRun = 0
    /\ revBase = NoSurface

Init ==
    /\ \E c \in Configs : width = c[1] /\ height = c[2]
    /\ heap = [o \in {"bmp", "snap"} |->
                 IF o = "bmp" THEN ZeroWords(width, height) ELSE NoSurface]
    /\ old_buffer = "None"
    /\ gdram = [vb \in VBytes |-> [hb \in HBytes |-> Unknown]]
    /\ ac = <<Or80(0), Or80(0)>>
    /\ sent = <<>>
    /\ lastOp = "init"
    /\ raised = "none"
    /\ written = NoSurface
    /\ preWritten = NoSurface
    /\ nmut = 0
    /\ NoDrawables
    /\ ModeAfterConstruction
    /\ shadow = <<>>
    /\ loop = NoLoop

Next ==
    \/ write_gdram_buffer
    \/ clear_gdram
    \/ set_pixel
    \/ set_word
    \/ reverse
    \/ reset

Spec == Init /\ [][Next]_vars

NextFault == Next \/ write_gdram_buffer_fails

SpecFault == Init /\ [][NextFault]_vars

----------------------------------------------------------------------------
(* ST7920: instruction sets *)

\* how many set_instruction_set calls a run makes
MaxCalls == 4

\* the driver, constructed and not used
DriverAtRest ==
    /\ width = DEFAULT_WIDTH
    /\ height = DEFAULT_HEIGHT
    /\ old_buffer = "None"
    /\ gdram = <<>>
    /\ ac = <<Or80(0), Or80(0)>>
    /\ sent = <<>>
    /\ written = NoSurface
    /\ preWritten = NoSurface
    /\ ModeAfterConstruction

\* set_instruction_set(ext, gfx) from the flags st = [extended, graphics]: the
\* flags it leaves, the command bytes it sends, the exception it raises
SetInstructionSetFlagFirst(st, ext, gfx) ==
    LET first == <<FUNCTION_SET + (IF ext THEN RE_BIT ELSE 0)>>
    IN IF ~gfx
       THEN [extended |-> ext, graphics |-> st.graphics, cmds |-> first, err |-> "none"]
       ELSE IF ~ext
       THEN [extended |-> ext, graphics |-> TRUE, cmds |-> first, err |-> "ValueError"]
       ELSE [extended |-> ext, graphics |-> TRUE,
             cmds |-> Append(first, FUNCTION_SET + RE_BIT + G_BIT), err |-> "none"]
SetInstructionSet(st, ext, gfx) ==
    LET first == <<FUNCTION_SET + (IF ext THEN RE_BIT ELSE 0)>>
    IN IF ~gfx
       THEN [extended |-> ext, graphics |-> st.graphics, cmds |-> first, err |-> "none"]
       ELSE IF ~ext
       THEN [extended |-> ext, graphics |-> st.graphics, cmds |-> first,
             err |-> "ValueError"]
       ELSE [extended |-> ext, graphics |-> TRUE,
             cmds |-> Append(first, FUNCTION_SET + RE_BIT + G_BIT), err |-> "none"]

\* lcd.set_instruction_set(ext, gfx)
set_instruction_set ==
    /\ Len(calls) < MaxCalls
    /\ \E ext \in BOOLEAN, gfx \in BOOLEAN :
       \E r \in {SetInstructionSet([extended |-> extended, graphics |-> graphics],
                                   ext, gfx)} :
          /\ extended' = r.extended
          /\ graphics' = r.graphics
          /\ raised' = r.err
          /\ calls' = Append(calls, [args |-> <<ext, gfx>>,
                                     before |-> <<extended, graphics>>,
                                     after |-> <<r.extended, r.graphics>>,
                                     cmds |-> r.cmds, raised |-> r.err])
    /\ lastOp' = "set_instruction_set"
    /\ UNCHANGED <<drvVars, gfxVars, heap, nmut, shadow, loop>>

NextMode == set_instruction_set

\* lcd = ST7920(cs_pin); the display's graphics RAM is left out
InitMode ==
    /\ DriverAtRest
    /\ NoDrawables
    /\ heap = <<>>
    /\ shadow = <<>>
    /\ loop = NoLoop
    /\ lastOp = "init"
    /\ raised = "none"
    /\ nmut = 0

SpecMode == InitMode /\ [][NextMode]_vars

----------------------------------------------------------------------------
(* Drawables: two containers and two lines, all of one size *)

\* GraphicsBuffer(width=16*GfxWords, height=GfxRows), Line(..., width, height)
GfxWords == 1
GfxRows == 2
\* how many add calls a run makes
MaxAdds == 2

GfxWidth == WORD_BITS * GfxWords
GfxHeight == GfxRows

Containers == {"g", "h"}
Lines == {"a", "b"}
Drawables == Containers \cup Lines

\* a & b, a | b, a ^ b on non-negative integers
RECURSIVE And16(_, _)
And16(a, b) ==
    IF a = 0 \/ b = 0 THEN 0
    ELSE (a % 2) * (b % 2) + 2 * And16(a \div 2, b \div 2)

RECURSIVE Or16(_, _)
Or16(a, b) ==
    IF a = 0 THEN b ELSE IF b = 0 THEN a
    ELSE (IF a % 2 = 1 \/ b % 2 = 1 THEN 1 ELSE 0) + 2 * Or16(a \div 2, b \div 2)

RECURSIVE XorBits(_, _)
XorBits(a, b) ==
    IF a = 0 THEN b ELSE IF b = 0 THEN a
    ELSE (IF a % 2 # b % 2 THEN 1 ELSE 0) + 2 * XorBits(a \div 2, b \div 2)

\* lines 87-92 of GraphicsBuffer.draw: one child blended into the accumulator
BlendWordsOffKeeps(bm, acc, drawn) ==
    [r \in 1..Len(acc) |-> [c \in 1..Len(acc[r]) |->
        IF bm = "ON" THEN Or16(acc[r][c], drawn[r][c])
        ELSE IF bm = "OFF" THEN And16(acc[r][c], drawn[r][c])
        ELSE XorBits(acc[r][c], drawn[r][c])]]
BlendWords(bm, acc, drawn) ==
    [r \in 1..Len(acc) |-> [c \in 1..Len(acc[r]) |->
        IF bm = "ON" THEN Or16(acc[r][c], drawn[r][c])
        ELSE IF bm = "OFF" THEN And16(acc[r][c], Xor16(drawn[r][c]))
        ELSE IF bm = "XOR" THEN XorBits(acc[r][c], drawn[r][c])
        ELSE acc[r][c]]]

\* Bitmap.dirty: the flag of o and of every container up its parent chain
DirtyNothing(flags, par, o) == flags
RECURSIVE Dirty(_, _, _)
Dirty(flags, par, o) ==
    LET f == [flags EXCEPT ![o] = TRUE]
    IN IF par[o] # "None" THEN Dirty(f, par, par[o]) ELSE f

\* the loop of Line.draw from the point (x1, y1) on
RECURSIVE BresenhamExclusive(_, _, _, _, _, _, _, _, _, _)
BresenhamExclusive(m, x1, y1, x2, y2, dx, dy, sx, sy, err) ==
    LET e2 == 2 * err
        stepx == e2 >= dy
        err1 == IF stepx THEN err + dy ELSE err
        stepy == e2 <= dx
    IN IF x1 = x2 /\ y1 = y2 THEN m
       ELSE BresenhamExclusive(SetPixelWords(m, x1, y1, TRUE),
                               IF stepx THEN x1 + sx ELSE x1,
                               IF stepy THEN y1 + sy ELSE y1,
                               x2, y2, dx, dy, sx, sy,
                               IF stepy THEN err1 + dx ELSE err1)
RECURSIVE Bresenham(_, _, _, _, _, _, _, _, _, _)
Bresenham(m, x1, y1, x2, y2, dx, dy, sx, sy, err) ==
    LET m1 == SetPixelWords(m, x1, y1, TRUE)
        e2 == 2 * err
        stepx == e2 >= dy
        err1 == IF stepx THEN err + dy ELSE err
        stepy == e2 <= dx
    IN IF x1 = x2 /\ y1 = y2 THEN m1
       ELSE Bresenham(m1, IF stepx THEN x1 + sx ELSE x1,
                          IF stepy THEN y1 + sy ELSE y1,
                      x2, y2, dx, dy, sx, sy,
                      IF stepy THEN err1 + dx ELSE err1)

Abs(v) == IF v < 0 THEN -v ELSE v
Min(a, b) == IF a < b THEN a ELSE b
Max(a, b) == IF a < b THEN b ELSE a

\* lines 147-163 of Line.draw: the words of a line of geometry q = <<x1, y1, x2, y2>>
\* rasterized from scratch into a w x h surface
LineRaster(q, w, h) ==
    LET dx == Abs(q[3] - q[1])
        dy == -Abs(q[4] - q[2])
    IN Bresenham(ZeroWords(w, h), q[1], q[2], q[3], q[4], dx, dy,
                 IF q[1] < q[3] THEN 1 ELSE -1,
                 IF q[2] < q[4] THEN 1 ELSE -1, dx + dy)

\* Line.draw on the state st = [words, dirty, err] of a draw in progress: every
\* in-bounds set_pixel marks the line and its parent chain dirty, then the line
\* clears its own flag
LineDraw(st, o) ==
    IF ~st.dirty[o] THEN st
    ELSE LET raster == LineRaster(geom[o], BmpWidth(st.words[o]), BmpHeight(st.words[o]))
             touched == IF raster # ResetWords(raster)
                        THEN Dirty(st.dirty, parent, o) ELSE st.dirty
         IN [st EXCEPT !.words[o] = raster,
                       !.dirty = [touched EXCEPT ![o] = FALSE]]

\* the loop of GraphicsBuffer.draw from child i on. A child that is a
\* GraphicsBuffer has draw(self), so c.draw(self.width, self.height) raises
\* TypeError.
RECURSIVE DrawChildren(_, _, _)
DrawChildren(st, self, i) ==
    IF i > Len(children[self]) \/ st.err # "none" THEN st
    ELSE LET c == children[self][i]
         IN IF c \in Containers THEN [st EXCEPT !.err = "TypeError"]
            ELSE LET s1 == LineDraw(st, c)
                 IN DrawChildren(
                        [s1 EXCEPT !.words[self] =
                            BlendWords(blend[c], @, s1.words[c])],
                        self, i + 1)

\* every action on the drawables leaves the driver alone
DriverIdle == UNCHANGED <<drvVars, modeVars, shadow, loop>>

\* GraphicsBuffer.draw
GbDraw(self) ==
    /\ lastOp' = "draw"
    /\ lastObj' = self
    /\ preDirty' = is_dirty[self]
    /\ prevRet' = IF lastOp = "draw" /\ lastObj = self /\ raised = "none"
                  THEN heap[self] ELSE NoSurface
    /\ IF ~is_dirty[self]
       THEN /\ recomputed' = FALSE
            /\ raised' = "none"
            /\ UNCHANGED <<heap, is_dirty>>
       ELSE \E st \in {DrawChildren([words |-> [heap EXCEPT ![self] = ResetWords(@)],
                                     dirty |-> is_dirty, err |-> "none"], self, 1)} :
            /\ recomputed' = TRUE
            /\ raised' = st.err
            /\ heap' = st.words
            /\ is_dirty' = st.dirty
    /\ revRun' = 0
    /\ UNCHANGED <<parent, children, geom, blend, nmut, nadd, fill, revBase>>
    /\ DriverIdle

draw == \E self \in Containers : GbDraw(self)

\* the drawables each container is given in this model
Addable(self) == IF self = "g" THEN {"a", "b", "h"} ELSE {"a"}

\* GraphicsBuffer.add
GbAdd(self, drawable) ==
    /\ nadd < MaxAdds
    /\ nadd' = nadd + 1
    /\ parent' = [parent EXCEPT ![drawable] = self]
    /\ children' = [children EXCEPT ![self] = Append(@, drawable)]
    /\ lastOp' = "add"
    /\ lastObj' = self
    /\ preDirty' = is_dirty[self]
    /\ raised' = "none"
    /\ recomputed' = FALSE
    /\ prevRet' = NoSurface
    /\ revRun' = 0
    /\ UNCHANGED <<heap, is_dirty, geom, blend, nmut, fill, revBase>>
    /\ DriverIdle

add == \E self \in Containers : \E drawable \in Addable(self) : GbAdd(self, drawable)

\* a mutator of drawable o: counted, and it returns nothing
Mutated(op, o) ==
    /\ nmut < MaxMutations
    /\ nmut' = nmut + 1
    /\ lastOp' = op
    /\ lastObj' = o
    /\ preDirty' = is_dirty[o]
    /\ raised' = "none"
    /\ recomputed' = FALSE
    /\ prevRet' = NoSurface
    /\ revRun' = 0
    /\ UNCHANGED <<parent, children, blend, nadd, fill, revBase>>
    /\ DriverIdle

\* the property setters x1, y1, x2, y2 of Line (k = 1..4)
LineSetterForgetsDirty(o, k, v) ==
    /\ Mutated("setter", o)
    /\ geom' = [geom EXCEPT ![o][k] = v]
    /\ UNCHANGED <<heap, is_dirty>>
LineSetter(o, k, v) ==
    /\ Mutated("setter", o)
    /\ geom' = [geom EXCEPT ![o][k] = v]
    /\ is_dirty' = Dirty(is_dirty, parent, o)
    /\ UNCHANGED heap

CoordValues == {0, 1}

setter == \E k \in 1..4, v \in CoordValues : LineSetter("a", k, v)

\* Bitmap.set_pixel(x, y) on a drawable
ShapeSetPixel(o, x, y) ==
    /\ Mutated(IF InBounds(heap[o], x, y) THEN "set_pixel" ELSE "set_pixel_outside", o)
    /\ heap' = [heap EXCEPT ![o] = SetPixelWords(@, x, y, TRUE)]
    /\ is_dirty' = IF InBounds(heap[o], x, y)
                   THEN Dirty(is_dirty, parent, o) ELSE is_dirty
    /\ UNCHANGED geom

shape_set_pixel == \E x \in {0, GfxWidth} : ShapeSetPixel("a", x, GfxHeight - 1)

\* Bitmap.set_word(v, h, value) on a drawable
ShapeSetWord(o, v, h, value) ==
    /\ Mutated(IF 0 <= v /\ v < BmpHeight(heap[o]) THEN "set_word" ELSE "set_word_outside", o)
    /\ heap' = [heap EXCEPT ![o] = SetWordWords(@, v, h, value)]
    /\ is_dirty' = IF 0 <= v /\ v < BmpHeight(heap[o])
                      /\ 0 <= h /\ h < BmpWidth(heap[o]) \div WORD_BITS
                   THEN Dirty(is_dirty, parent, o) ELSE is_dirty
    /\ UNCHANGED geom

shape_set_word == \E v \in {0, GfxHeight} : ShapeSetWord("a", v, 0, 1)

\* g = GraphicsBuffer(); h = GraphicsBuffer(); a = Line(0, 0, 1, 0);
\* b = Line(1, 0, 1, 1, blend_mode) with blend_mode OFF or XOR
InitGfx ==
    /\ heap = [o \in Drawables |-> ZeroWords(GfxWidth, GfxHeight)]
    /\ is_dirty = [o \in Drawables |-> TRUE]
    /\ parent = [o \in Drawables |-> "None"]
    /\ children = [o \in Containers |-> <<>>]
    /\ geom = [o \in Lines |-> IF o = "a" THEN <<0, 0, 1, 0>> ELSE <<1, 0, 1, 1>>]
    /\ \E bm \in {"OFF", "XOR"} :
          blend = [o \in Drawables |-> IF o = "b" THEN bm ELSE "ON"]
    /\ lastOp = "init"
    /\ lastObj = "g"
    /\ raised = "none"
    /\ recomputed = FALSE
    /\ prevRet = NoSurface
    /\ preDirty = TRUE
    /\ nmut = 0
    /\ nadd = 0
    /\ fill = <<>>
    /\ revRun = 0
    /\ revBase = NoSurface
    /\ ModeAfterConstruction
    /\ shadow = <<>>
    /\ loop = NoLoop
    /\ width = DEFAULT_WIDTH
    /\ height = DEFAULT_HEIGHT
    /\ old_buffer = "None"
    /\ gdram = <<>>
    /\ ac = <<Or80(0), Or80(0)>>
    /\ sent = <<>>
    /\ written = NoSurface
    /\ preWritten = NoSurface

NextGfx ==
    \/ draw
    \/ add
    \/ setter
    \/ shape_set_pixel
    \/ shape_set_word

SpecGfx == InitGfx /\ [][NextGfx]_vars

\* how many reverse() calls in a row a run makes on one container
MaxReverseRun == 2

\* lines 96-98 of GraphicsBuffer.reverse: every word of every row ^= 0xFFFF
GbReverseWordsSkipsLastRow(m) ==
    [r \in 1..BmpHeight(m) |-> [c \in 1..(BmpWidth(m) \div WORD_BITS) |->
        IF r < BmpHeight(m) THEN Xor16(m[r][c]) ELSE m[r][c]]]
GbReverseWords(m) ==
    [r \in 1..BmpHeight(m) |-> [c \in 1..(BmpWidth(m) \div WORD_BITS) |->
        Xor16(m[r][c])]]

\* GraphicsBuffer.reverse
GbReverse(self) ==
    \E run \in {IF lastOp = "reverse" /\ lastObj = self THEN revRun ELSE 0} :
        /\ run < MaxReverseRun
        /\ revRun' = run + 1
        /\ revBase' = IF run = 0 THEN heap[self] ELSE revBase
        /\ heap' = [heap EXCEPT ![self] = GbReverseWords(@)]
        /\ lastOp' = "reverse"
        /\ lastObj' = self
        /\ preDirty' = is_dirty[self]
        /\ raised' = "none"
        /\ recomputed' = FALSE
        /\ prevRet' = NoSurface
        /\ UNCHANGED <<is_dirty, parent, children, geom, blend, nmut, nadd, fill>>
        /\ DriverIdle

gb_reverse == \E self \in Containers : GbReverse(self)

NextReverse ==
    \/ draw
    \/ add
    \/ gb_reverse

SpecReverse == InitGfx /\ [][NextReverse]_vars

----------------------------------------------------------------------------
(* A Bitmap on its own: p = Bitmap(16 * PixWords, PixRows) *)

PixWords == 1
PixRows == 2
\* how many set_pixel and set_word calls a run makes
MaxWrites == 3

PixWidth == WORD_BITS * PixWords
PixPixels == (0..(PixWidth - 1)) \X (0..(PixRows - 1))

\* the drawables objs of the given words, each by itself: Bitmap.__init__
Alone(objs, words) ==
    /\ heap = [d \in objs |-> words]
    /\ is_dirty = [d \in objs |-> TRUE]
    /\ parent = [d \in objs |-> "None"]
    /\ blend = [d \in objs |-> "ON"]
    /\ children = <<>>
    /\ lastOp = "init"
    /\ lastObj = "None"
    /\ raised = "none"
    /\ recomputed = FALSE
    /\ prevRet = NoSurface
    /\ preDirty = TRUE
    /\ nmut = 0
    /\ nadd = 0
    /\ revRun = 0
    /\ revBase = NoSurface

\* a set_pixel or set_word call on p that ends as r = [words, err], after which
\* the pixels of `asked` were last asked to hold the values asked[q]
BitmapWrite(op, r, inside, asked) ==
    /\ nmut < MaxWrites
    /\ nmut' = nmut + 1
    /\ heap' = [heap EXCEPT !["p"] = r.words]
    /\ is_dirty' = IF inside /\ r.err = "none"
                   THEN Dirty(is_dirty, parent, "p") ELSE is_dirty
    /\ shadow' = [q \in DOMAIN shadow |->
                    IF q \in DOMAIN asked THEN asked[q] ELSE shadow[q]]
    /\ lastOp' = op
    /\ lastObj' = "p"
    /\ preDirty' = is_dirty["p"]
    /\ raised' = r.err
    /\ recomputed' = FALSE
    /\ prevRet' = NoSurface
    /\ revRun' = 0
    /\ UNCHANGED <<parent, children, geom, blend, nadd, fill, revBase>>
    /\ UNCHANGED <<drvVars, modeVars, loop>>

PixXs == {0, PixWidth - 1, PixWidth}
PixYs == {-1, 0, PixRows - 1}

\* p.set_pixel(x, y, value)
bitmap_set_pixel ==
    \E x \in PixXs, y \in PixYs, value \in BOOLEAN :
        \E r \in SetPixelOutcomes(heap["p"], x, y, value) :
            BitmapWrite("set_pixel", r, InBounds(heap["p"], x, y),
                        [q \in {<<x, y>>} \cap PixPixels |-> IF value THEN 1 ELSE 0])

PixVs == {0, PixRows - 1, PixRows}
PixHs == {0, PixWords}
PixValues == {WORD_MASK \div 2 + 2, WORD_MASK + 2}

\* p.set_word(v, h, value)
bitmap_set_word ==
    \E v \in PixVs, h \in PixHs, value \in PixValues :
        BitmapWrite("set_word",
                    [words |-> SetWordWords(heap["p"], v, h, value), err |-> "none"],
                    0 <= v /\ v < PixRows /\ 0 <= h /\ h < PixWords,
                    [q \in {c \in PixPixels :
                                c[2] = v /\ c[1] \div WORD_BITS = h} |->
                        Bit(value, (WORD_BITS - 1) - (q[1] % WORD_BITS))])

InitBitmap ==
    /\ Alone({"p"}, ZeroWords(PixWidth, PixRows))
    /\ shadow = [q \in PixPixels |-> 0]
    /\ loop = NoLoop
    /\ geom = <<>>
    /\ fill = <<>>
    /\ DriverAtRest

NextBitmap ==
    \/ bitmap_set_pixel
    \/ bitmap_set_word

SpecBitmap == InitBitmap /\ [][NextBitmap]_vars

----------------------------------------------------------------------------
(* Shapes on their own, each with a surface of 16 * ShapeWords x ShapeRows *)

ShapeWords == 1
ShapeRows == 5
\* the coordinates a Line and a Rectangle are constructed with: -1..MaxCoord
MaxCoord == 4

ShapeWidth == WORD_BITS * ShapeWords
Coords == -1..MaxCoord

\* the state a draw call starts from
DrawState == [words |-> heap, dirty |-> is_dirty, err |-> "none"]

\* o.draw(width, height) of a shape, called by the application, ending as
\* st = [words, dirty, err]
ShapeDraw(o, st) ==
    /\ heap' = st.words
    /\ is_dirty' = st.dirty
    /\ lastOp' = "draw"
    /\ lastObj' = o
    /\ preDirty' = is_dirty[o]
    /\ recomputed' = is_dirty[o]
    /\ raised' = st.err
    /\ prevRet' = NoSurface
    /\ revRun' = 0
    /\ UNCHANGED <<parent, children, geom, blend, nmut, nadd, fill, revBase>>
    /\ DriverIdle

\* a.draw(width, height)
line_draw == \E st \in {LineDraw(DrawState, "a")} : ShapeDraw("a", st)

\* a = Line(x1, y1, x2, y2, width=ShapeWidth, height=ShapeRows)
InitLine ==
    /\ Alone({"a"}, ZeroWords(ShapeWidth, ShapeRows))
    /\ \E x1 \in Coords, y1 \in Coords, x2 \in Coords, y2 \in Coords :
          geom = [o \in {"a"} |-> <<x1, y1, x2, y2>>]
    /\ fill = <<>>
    /\ shadow = <<>>
    /\ loop = NoLoop
    /\ DriverAtRest

NextLine ==
    \/ line_draw
    \/ setter

SpecLine == InitLine /\ [][NextLine]_vars

----------------------------------------------------------------------------
(* Line.draw one pass of its loop at a time *)

\* the loop of Line.draw is `while True`; the model leaves it after this many
\* passes at the latest
MaxPlotted == 2 * (MaxCoord + 2)

\* sx and sy of Line.draw
StepSignForward(a, b) == 1
StepSign(a, b) == IF a < b THEN 1 ELSE -1

\* the locals of Line.draw when it reaches its loop, for the geometry
\* q = <<x1, y1, x2, y2>>
LoopEntry(q) ==
    LET dx == Abs(q[3] - q[1])
        dy == -Abs(q[4] - q[2])
    IN [pc |-> "loop", x1 |-> q[1], y1 |-> q[2], x2 |-> q[3], y2 |-> q[4],
        dx |-> dx, dy |-> dy, sx |-> StepSign(q[1], q[3]),
        sy |-> StepSign(q[2], q[4]), err |-> dx + dy, plotted |-> 0]

\* whether the pass that starts with the locals l ends in `break`
AtEnd(l) == l.x1 = l.x2 /\ l.y1 = l.y2

\* the locals after a pass of the loop that does not break
LoopPass(l) ==
    LET e2 == 2 * l.err
        stepx == e2 >= l.dy
        err1 == IF stepx THEN l.err + l.dy ELSE l.err
        stepy == e2 <= l.dx
    IN [l EXCEPT !.x1 = IF stepx THEN l.x1 + l.sx ELSE l.x1,
                 !.y1 = IF stepy THEN l.y1 + l.sy ELSE l.y1,
                 !.err = IF stepy THEN err1 + l.dx ELSE err1,
                 !.plotted = l.plotted + 1]

\* what a step of a.draw leaves alone
InDraw ==
    /\ lastOp' = "draw"
    /\ lastObj' = "a"
    /\ raised' = "none"
    /\ prevRet' = NoSurface
    /\ revRun' = 0
    /\ UNCHANGED <<parent, children, geom, blend, nmut, nadd, fill, revBase>>
    /\ UNCHANGED <<drvVars, modeVars, shadow>>

\* a.draw(width, height) on a line that is not dirty: it returns at once
line_draw_clean ==
    /\ loop.pc = "out"
    /\ ~is_dirty["a"]
    /\ preDirty' = FALSE
    /\ recomputed' = FALSE
    /\ UNCHANGED <<heap, is_dirty, loop>>
    /\ InDraw

\* a.draw(width, height) on a dirty line, up to its loop
line_draw_enter ==
    /\ loop.pc = "out"
    /\ is_dirty["a"]
    /\ heap' = [heap EXCEPT !["a"] = ResetWords(@)]
    /\ loop' = LoopEntry(geom["a"])
    /\ preDirty' = TRUE
    /\ recomputed' = TRUE
    /\ UNCHANGED is_dirty
    /\ InDraw

\* one pass of the loop: set_pixel, then either `break`, _is_dirty = False and
\* return, or the step to the next point
line_draw_pass ==
    /\ loop.pc = "loop"
    /\ loop.plotted < MaxPlotted
    /\ heap' = [heap EXCEPT !["a"] = SetPixelWords(@, loop.x1, loop.y1, TRUE)]
    /\ \E touched \in {IF InBounds(heap["a"], loop.x1, loop.y1)
                       THEN Dirty(is_dirty, parent, "a") ELSE is_dirty} :
          IF AtEnd(loop)
          THEN /\ is_dirty' = [touched EXCEPT !["a"] = FALSE]
               /\ loop' = [NoLoop EXCEPT !.plotted = loop.plotted + 1]
          ELSE /\ is_dirty' = touched
               /\ loop' = LoopPass(loop)
    /\ UNCHANGED <<preDirty, recomputed>>
    /\ InDraw

NextLoop ==
    \/ line_draw_clean
    \/ line_draw_enter
    \/ line_draw_pass

\* a call that has begun goes on running
SpecLoop == InitLine /\ [][NextLoop]_vars /\ WF_vars(line_draw_pass)

\* a Rectangle is constructed with w and h in 0..MaxSize
MaxSize == 3

\* set_pixel(x, y) on the words m for every <<x, y>> of pts
RECURSIVE SetAll(_, _)
SetAll(m, pts) ==
    IF pts = {} THEN m
    ELSE LET q == CHOOSE c \in pts : TRUE
         IN SetAll(SetPixelWords(m, q[1], q[2], TRUE), pts \ {q})

\* lines 449-451 of Rectangle.draw: the <<xx, yy>> of range(x, x + w) and
\* range(y, y + h), for the geometry q = <<x, y, w, h>>
FillPixelsClosed(q) == (q[1]..(q[1] + q[3])) \X (q[2]..(q[2] + q[4]))
FillPixels(q) == (q[1]..(q[1] + q[3] - 1)) \X (q[2]..(q[2] + q[4] - 1))

\* lines 409-447 of Rectangle.draw: the words of the four Lines, unioned
BorderRaster(q, w, h) ==
    LET right == q[1] + q[3] - 1
        bottom == q[2] + q[4] - 1
        top == LineRaster(<<q[1], q[2], right, q[2]>>, w, h)
        left == LineRaster(<<q[1], q[2], q[1], bottom>>, w, h)
        rightLine == LineRaster(<<right, q[2], right, bottom>>, w, h)
        bottomLine == LineRaster(<<q[1], bottom, right, bottom>>, w, h)
    IN BlendWords("ON", BlendWords("ON", BlendWords("ON", top, left), rightLine),
                  bottomLine)

\* a shape's draw from its reset on: the words become raster; the set_pixel
\* calls of the shape itself (byPixels), when any is in bounds, mark it and its
\* parent chain dirty, then the shape clears its own flag
Rasterized(st, o, raster, byPixels) ==
    [st EXCEPT !.words[o] = raster,
               !.dirty = [(IF byPixels /\ raster # ResetWords(raster)
                           THEN Dirty(st.dirty, parent, o) ELSE st.dirty)
                          EXCEPT ![o] = FALSE]]

\* Rectangle.draw on the state st of a draw in progress
RectangleDraw(st, o) ==
    IF ~st.dirty[o] THEN st
    ELSE LET zero == ResetWords(st.words[o])
         IN IF ~fill[o]
            THEN Rasterized(st, o, BlendWords("ON", zero,
                     BorderRaster(geom[o], BmpWidth(zero), BmpHeight(zero))), FALSE)
            ELSE Rasterized(st, o, SetAll(zero, FillPixels(geom[o])), TRUE)

\* rf = Rectangle(x, y, w, h, fill=True), ru = Rectangle(x, y, w, h)
Rectangles == {"rf", "ru"}

\* r.draw(width, height)
rectangle_draw ==
    \E o \in Rectangles : \E st \in {RectangleDraw(DrawState, o)} : ShapeDraw(o, st)

InitRectangle ==
    /\ Alone(Rectangles, ZeroWords(ShapeWidth, ShapeRows))
    /\ \E x \in Coords, y \in Coords, w \in 0..MaxSize, h \in 0..MaxSize :
          geom = [o \in Rectangles |-> <<x, y, w, h>>]
    /\ fill = [o \in Rectangles |-> o = "rf"]
    /\ shadow = <<>>
    /\ loop = NoLoop
    /\ DriverAtRest

NextRectangle == rectangle_draw

SpecRectangle == InitRectangle /\ [][NextRectangle]_vars

\* a Triangle is constructed with vertices in (0..MaxTri) x (0..MaxTri)
MaxTri == 3

\* The x-intersections of Triangle.draw are Python floats. They are modelled as
\* exact fractions <<n, d>> with d > 0: for |y1 - y0| <= 5 the float of line 339
\* is either exact (d a power of two) or not within rounding distance of a
\* half-integer, so that sorting and int(round(x)) give the same integers.

\* line 337: the edge from (.., y0) to (.., y1) meets row y (line 335 skipped
\* the horizontal edges)
EdgeCoversHalfOpen(y, y0, y1) == y0 # y1 /\ y >= Min(y0, y1) /\ y < Max(y0, y1)
EdgeCovers(y, y0, y1) == y0 # y1 /\ y >= Min(y0, y1) /\ y <= Max(y0, y1)

\* lines 338-339: x0 + ((y - y0) / (y1 - y0)) * (x1 - x0) for the edge
\* e = <<x0, y0, x1, y1>>
Intersect(e, y) ==
    LET n == e[1] * (e[4] - e[2]) + (y - e[2]) * (e[3] - e[1])
        d == e[4] - e[2]
    IN IF d < 0 THEN <<-n, -d>> ELSE <<n, d>>

\* int(round(x)): to the nearest integer, a half to the even one
RoundHalfEven(x) ==
    LET fl == x[1] \div x[2]
        twice == 2 * (x[1] - fl * x[2])
    IN IF twice < x[2] THEN fl
       ELSE IF twice > x[2] THEN fl + 1
       ELSE IF fl % 2 = 0 THEN fl ELSE fl + 1

\* lines 330-334: the edges of the vertices q = <<x1, y1, x2, y2, x3, y3>>
Edges(q) == << <<q[1], q[2], q[3], q[4]>>, <<q[3], q[4], q[5], q[6]>>,
               <<q[5], q[6], q[1], q[2]>> >>

\* lines 329-340: xints of row y, in edge order
XInts(q, y) ==
    LET meets == SelectSeq(Edges(q), LAMBDA e : EdgeCovers(y, e[2], e[4]))
    IN [i \in 1..Len(meets) |-> Intersect(meets[i], y)]

\* sorted(xints)[:2]
Less(a, b) == a[1] * b[2] < b[1] * a[2]
MinIndex(xs) == CHOOSE i \in 1..Len(xs) : \A j \in 1..Len(xs) : ~Less(xs[j], xs[i])
Without(xs, i) == [j \in 1..(Len(xs) - 1) |-> IF j < i THEN xs[j] ELSE xs[j + 1]]
TwoSmallest(xs) ==
    LET rest == Without(xs, MinIndex(xs))
    IN <<xs[MinIndex(xs)], rest[MinIndex(rest)]>>

\* lines 341-344: the <<x, y>> that row y asks set_pixel for
SpanPixels(q, y) ==
    LET xs == XInts(q, y)
    IN IF Len(xs) >= 2
       THEN (RoundHalfEven(TwoSmallest(xs)[1])..RoundHalfEven(TwoSmallest(xs)[2]))
                \X {y}
       ELSE {}

\* lines 327-344 of Triangle.draw
TriangleFillPixels(q) ==
    UNION {SpanPixels(q, y) : y \in Min(q[2], Min(q[4], q[6]))..
                                    Max(q[2], Max(q[4], q[6]))}

\* lines 311-320 of Triangle.draw: the words of the three Lines, unioned
OutlineRaster(q, w, h) ==
    BlendWords("ON", BlendWords("ON", LineRaster(<<q[1], q[2], q[3], q[4]>>, w, h),
                                      LineRaster(<<q[3], q[4], q[5], q[6]>>, w, h)),
               LineRaster(<<q[5], q[6], q[1], q[2]>>, w, h))

\* Triangle.draw on the state st of a draw in progress
TriangleDraw(st, o) ==
    IF ~st.dirty[o] THEN st
    ELSE LET zero == ResetWords(st.words[o])
         IN IF ~fill[o]
            THEN Rasterized(st, o, BlendWords("ON", zero,
                     OutlineRaster(geom[o], BmpWidth(zero), BmpHeight(zero))), FALSE)
            ELSE Rasterized(st, o, SetAll(zero, TriangleFillPixels(geom[o])), TRUE)

\* t.draw(width, height)
triangle_draw == \E st \in {TriangleDraw(DrawState, "t")} : ShapeDraw("t", st)

\* t = Triangle(x1, y1, x2, y2, x3, y3, fill, width=ShapeWidth, height=ShapeRows)
InitTriangle ==
    /\ Alone({"t"}, ZeroWords(ShapeWidth, ShapeRows))
    /\ \E v1 \in (0..MaxTri) \X (0..MaxTri), v2 \in (0..MaxTri) \X (0..MaxTri),
          v3 \in (0..MaxTri) \X (0..MaxTri) :
          geom = [o \in {"t"} |-> v1 \o v2 \o v3]
    /\ \E f \in BOOLEAN : fill = [o \in {"t"} |-> f]
    /\ shadow = <<>>
    /\ loop = NoLoop
    /\ DriverAtRest

NextTriangle == triangle_draw

SpecTriangle == InitTriangle /\ [][NextTriangle]_vars

----------------------------------------------------------------------------
(* Properties of the differential writer *)

\* the word positions of surface m in scan order, with their words
AllPairs(m) ==
    [i \in 1..(BmpHeight(m) * BmpWordsPerRow(m)) |->
        LET row == (i - 1) \div BmpWordsPerRow(m)
            col == (i - 1) % BmpWordsPerRow(m)
        IN <<row, col, m[row + 1][col + 1]>>]

\* the pairs of new whose word is not the word of old at the same position
DiffPairs(old, new) ==
    SelectSeq(AllPairs(new), LAMBDA p : old[p[1] + 1][p[2] + 1] # p[3])

\* the display holds the words of surface m at the addresses of its positions
DisplayShows(m) ==
    \A row \in 0..(BmpHeight(m) - 1), col \in 0..(BmpWordsPerRow(m) - 1) :
        GdramAt(gdram, GdramAddress(row, col)) = m[row + 1][col + 1]

WriteReturned == lastOp = "write" /\ raised = "none"

\* C1: a completed write_gdram_buffer(S) issues one pair for every word position
\* of S, in row-major order, when no surface was written since construction or
\* the last clear_gdram; no pair when S has the contents of the previous write;
\* and exactly the one pair of the changed position when S differs from the
\* previous write in one word.
C1_DifferentialMinimality ==
    WriteReturned =>
        /\ preWritten = NoSurface => sent = AllPairs(written)
        /\ preWritten = written => sent = <<>>
        /\ \A row \in 0..(BmpHeight(written) - 1),
              col \in 0..(BmpWordsPerRow(written) - 1) :
              (/\ preWritten # NoSurface
               /\ preWritten[row + 1][col + 1] # written[row + 1][col + 1]
               /\ written = [preWritten EXCEPT ![row + 1][col + 1] =
                                                written[row + 1][col + 1]])
              => sent = << <<row, col, written[row + 1][col + 1]>> >>

C1_Witness ==
    /\ WriteReturned
    /\ preWritten # NoSurface
    /\ Len(sent) = 1
    /\ Len(DiffPairs(preWritten, written)) = 1

\* C2: on a 128x64 display, when write_gdram_buffer(S) returns every GDRAM word
\* at the address of (row, col) holds S.words[row, col], distinct positions have
\* distinct addresses, and the baseline old_buffer holds the words of S.
C2_DifferentialEqualsFull ==
    (WriteReturned /\ width = DEFAULT_WIDTH /\ height = DEFAULT_HEIGHT) =>
        /\ DisplayShows(heap["bmp"])
        /\ Cardinality({GdramAddress(row, col) :
                           row \in 0..(height - 1),
                           col \in 0..(width \div WORD_BITS - 1)})
             = height * (width \div WORD_BITS)
        /\ old_buffer # "None"
        /\ heap[old_buffer] = heap["bmp"]

C2_Witness ==
    /\ WriteReturned
    /\ width = DEFAULT_WIDTH /\ height = DEFAULT_HEIGHT
    /\ preWritten # NoSurface
    /\ sent # <<>>
    /\ heap["bmp"][DEFAULT_HEIGHT][DEFAULT_WIDTH \div WORD_BITS] # 0

\* C3: the baseline keeps the words of the last written surface whatever is done
\* to the live surface afterwards, and the next write of the same object
\* transmits exactly the words changed since that write.
C3_BaselineIndependent ==
    /\ old_buffer # "None" => heap[old_buffer] = written
    /\ (WriteReturned /\ preWritten # NoSurface)
          => sent = DiffPairs(preWritten, heap["bmp"])

C3_Witness ==
    /\ WriteReturned
    /\ preWritten # NoSurface
    /\ nmut > 0
    /\ Len(sent) > 1
    /\ Len(sent) < Len(AllPairs(written))

\* C4: clear_gdram completes without error, leaves the baseline absent and
\* leaves zero at the address of every word position of the configured surface.
C4_ClearAnyGeometry ==
    lastOp = "clear" =>
        /\ raised = "none"
        /\ old_buffer = "None"
        /\ \A row \in 0..(height - 1), col \in 0..(width \div WORD_BITS - 1) :
              GdramAt(gdram, GdramAddress(row, col)) = 0

\* C5: after a write_gdram_buffer that raised partway through its scan the
\* baseline is absent or agrees with the display on every word.
C5_BaselineNeverAheadOfDisplay ==
    (lastOp = "write" /\ raised = "OSError" /\ sent # <<>>) =>
        \/ old_buffer = "None"
        \/ DisplayShows(heap[old_buffer])

----------------------------------------------------------------------------
(* Properties of the drawables *)

DrawReturned == lastOp = "draw" /\ raised = "none"

\* the set pixels <<x, y>> of surface m
PixelsOf(m) ==
    {q \in (0..(BmpWidth(m) - 1)) \X (0..(BmpHeight(m) - 1)) :
        GetPixel(m, q[1], q[2]) = 1}

\* the set pixels of the accumulator after the children kids[i..], whose set
\* pixels are pix[c], are blended in order into acc
RECURSIVE FoldPixels(_, _, _, _)
FoldPixels(acc, kids, i, pix) ==
    IF i > Len(kids) THEN acc
    ELSE LET c == kids[i]
         IN FoldPixels(IF blend[c] = "ON" THEN acc \cup pix[c]
                       ELSE IF blend[c] = "OFF" THEN acc \ pix[c]
                       ELSE (acc \ pix[c]) \cup (pix[c] \ acc),
                       kids, i + 1, pix)

\* surface m is the in-order blend, from zero, of the surfaces bits[c] of the
\* children kids
IsBlendOf(m, kids, bits) ==
    \A pix \in {[c \in Lines |-> PixelsOf(bits[c])]} :
        PixelsOf(m) = FoldPixels({}, kids, 1, pix)

\* each line rasterized from scratch from its current geometry
FreshLines == [c \in Lines |-> LineRaster(geom[c], GfxWidth, GfxHeight)]

\* the containers above o
RECURSIVE Ancestors(_)
Ancestors(o) == IF parent[o] = "None" THEN {} ELSE {parent[o]} \cup Ancestors(parent[o])

\* C6: the surface draw() returns is the in-order blend, from zero, of every
\* child rasterized from scratch from its current geometry, and a draw() right
\* after a draw() of the same container returns the same words.
C6_CacheNeverStale ==
    DrawReturned =>
        /\ IsBlendOf(heap[lastObj], children[lastObj], FreshLines)
        /\ prevRet # NoSurface => heap[lastObj] = prevRet

C6_Witness ==
    /\ DrawReturned
    /\ prevRet # NoSurface
    /\ \E i \in 1..Len(children[lastObj]) : children[lastObj][i] = "a"
    /\ geom["a"] = <<0, 0, 1, 1>>
    /\ nmut > 0

\* C7: when draw() returns, the container and every child it drew are not
\* dirty, and a draw() right after a draw() of the same container recomputes
\* nothing.
C7_DrawClearsDirty ==
    DrawReturned =>
        /\ ~is_dirty[lastObj]
        /\ \A i \in 1..Len(children[lastObj]) : ~is_dirty[children[lastObj][i]]
        /\ prevRet # NoSurface => ~recomputed

C9_BlendOrderMatters ==
    DrawReturned =>
        /\ IsBlendOf(heap[lastObj], children[lastObj], heap)
        /\ \A p, q \in Lines :
              (/\ children[lastObj] = <<p, q>>
               /\ blend[p] = "ON" /\ blend[q] = "OFF"
               /\ PixelsOf(heap[p]) \cap PixelsOf(heap[q]) # {})
              => ~IsBlendOf(heap[lastObj], <<q, p>>, heap)

C9_Witness ==
    /\ DrawReturned
    /\ children[lastObj] = <<"a", "b">>
    /\ blend["a"] = "ON" /\ blend["b"] = "OFF"
    /\ GetPixel(heap["a"], 1, 0) = 1 /\ GetPixel(heap["b"], 1, 0) = 1
    /\ GetPixel(heap[lastObj], 1, 0) = 0
    /\ GetPixel(heap[lastObj], 0, 0) = 1

\* C10: draw() of a container that holds a container completes without error
\* and returns the blend of its children's surfaces, the inner container's
\* composed surface among them.
C10_ContainersNest ==
    (/\ lastOp = "draw"
     /\ \E i \in 1..Len(children[lastObj]) : children[lastObj][i] \in Containers)
    => /\ raised = "none"
       /\ IsBlendOf(heap[lastObj], children[lastObj], heap)

\* C15: a draw() of a container that raises leaves the container's words
\* exactly as they were before the call.
C15_DrawAllOrNothing ==
    [][(lastOp' = "draw" /\ raised' # "none") => heap'[lastObj'] = heap[lastObj']]_vars

----------------------------------------------------------------------------
(* Properties of the instruction-set flags *)

Rejected(c) == c.args = <<FALSE, TRUE>>

\* C14: a set_instruction_set(extended=False, graphics=True) call raises, leaves
\* the graphics flag as it was and does not send the graphics-enable command;
\* no other call raises, and the call after a rejected one, when it is not
\* rejected itself, completes and sets the flags it was asked for.
C14_GraphicsNeedsExtended ==
    \A i \in 1..Len(calls) :
        /\ Rejected(calls[i]) =>
              /\ calls[i].raised = "ValueError"
              /\ calls[i].after[2] = calls[i].before[2]
              /\ \A k \in 1..Len(calls[i].cmds) :
                    calls[i].cmds[k] # FUNCTION_SET + RE_BIT + G_BIT
        /\ ~Rejected(calls[i]) =>
              /\ calls[i].raised = "none"
              /\ (i > 1 /\ Rejected(calls[i - 1])) =>
                    /\ calls[i].after[1] = calls[i].args[1]
                    /\ calls[i].args[2] => calls[i].after[2]

C14_Witness ==
    /\ Len(calls) = 3
    /\ calls[1].args = <<TRUE, FALSE>>
    /\ Rejected(calls[2])
    /\ raised = "none"
    /\ calls[3].args = <<TRUE, TRUE>>
    /\ calls[3].cmds = <<FUNCTION_SET + RE_BIT, FUNCTION_SET + RE_BIT + G_BIT>>
    /\ extended /\ graphics

\* C20: in every state reached by set_instruction_set calls, graphics = True
\* implies extended = True.
C20_GraphicsImpliesExtended == graphics => extended

----------------------------------------------------------------------------
(* Properties of a Bitmap on its own *)

\* C11: every set_pixel and set_word call on a Bitmap returns, and after any
\* sequence of them get_pixel(x, y) of an in-range pixel is the value the last
\* call that covered the pixel asked for (the value of set_pixel, bit
\* 15 - (x mod 16) of the value of set_word, 0 when no call covered it), and
\* get_pixel outside [0, W) x [0, H) is 0.
C11_SurfaceRoundTrip ==
    /\ raised = "none"
    /\ \A q \in PixPixels : GetPixel(heap["p"], q[1], q[2]) = shadow[q]
    /\ \A x \in {-1, PixWidth}, y \in -1..PixRows : GetPixel(heap["p"], x, y) = 0
    /\ \A x \in -1..PixWidth, y \in {-1, PixRows} : GetPixel(heap["p"], x, y) = 0

----------------------------------------------------------------------------
(* Properties of the shapes *)

\* the pixels <<x, y>> of the rows ys whose x is in xs
Block(xs, ys) == xs \X ys

\* C12: a drawn Line with both endpoints inside the surface has both endpoints
\* set and exactly max(|x2-x1|, |y2-y1|) + 1 pixels set; a horizontal or
\* vertical one has exactly the pixels of the closed segment set.
C12_LineEndpointsInclusive ==
    (/\ lastOp = "draw" /\ lastObj = "a"
     /\ InBounds(heap["a"], geom["a"][1], geom["a"][2])
     /\ InBounds(heap["a"], geom["a"][3], geom["a"][4]))
    => \A pix \in {PixelsOf(heap["a"])}, q \in {geom["a"]} :
          /\ <<q[1], q[2]>> \in pix
          /\ <<q[3], q[4]>> \in pix
          /\ Cardinality(pix) = Max(Abs(q[3] - q[1]), Abs(q[4] - q[2])) + 1
          /\ q[2] = q[4] => pix = Block(Min(q[1], q[3])..Max(q[1], q[3]), {q[2]})
          /\ q[1] = q[3] => pix = Block({q[1]}, Min(q[2], q[4])..Max(q[2], q[4]))

C12_Witness ==
    /\ lastOp = "draw" /\ lastObj = "a"
    /\ geom["a"] = <<0, 0, 3, 0>>
    /\ PixelsOf(heap["a"]) = {<<0, 0>>, <<1, 0>>, <<2, 0>>, <<3, 0>>}

\* the most points a line of geometry q = <<x1, y1, x2, y2>> may plot
PlotBound(q) == Max(Abs(q[3] - q[1]), Abs(q[4] - q[2])) + 1

\* a.draw has returned
Returned == lastOp = "draw" /\ loop.pc = "out"

\* C21: for every pair of integer endpoints, inside the surface or not, in any
\* direction and coincident or not, a Line.draw call that has reached its loop
\* returns, its loop never calls set_pixel more than
\* max(|x2-x1|, |y2-y1|) + 1 times, and when it has returned the line's dirty
\* flag is false.
C21_LineDrawTerminates ==
    /\ [](loop.plotted <= PlotBound(geom["a"]))
    /\ [](Returned => ~is_dirty["a"])
    /\ (loop.pc = "loop") ~> Returned

C21_Witness ==
    /\ Returned
    /\ geom["a"] = <<MaxCoord, -1, -1, 2>>
    /\ loop.plotted = MaxCoord + 2
    /\ ~is_dirty["a"]
    /\ PixelsOf(heap["a"]) # {}

\* the pixels of a surface of w x h
Surface(m) == (0..(BmpWidth(m) - 1)) \X (0..(BmpHeight(m) - 1))

\* the region [x, x + w) x [y, y + h) of the geometry q = <<x, y, w, h>>
Region(q) == (q[1]..(q[1] + q[3] - 1)) \X (q[2]..(q[2] + q[4] - 1))

\* the pixels of the region on its first or last column or row
Perimeter(q) ==
    {c \in Region(q) : \/ c[1] \in {q[1], q[1] + q[3] - 1}
                        \/ c[2] \in {q[2], q[2] + q[4] - 1}}

\* C13: a drawn filled Rectangle(x, y, w, h) has exactly the pixels of
\* [x, x + w) x [y, y + h) that lie inside the surface set, and its dirty flag
\* is false.
C13_FilledRectangleExact ==
    (lastOp = "draw" /\ lastObj = "rf") =>
        /\ PixelsOf(heap["rf"]) = Region(geom["rf"]) \cap Surface(heap["rf"])
        /\ ~is_dirty["rf"]

C13_Witness ==
    /\ lastOp = "draw" /\ lastObj = "rf"
    /\ geom["rf"] = <<2, 2, 3, 3>>
    /\ Cardinality(PixelsOf(heap["rf"])) = 9
    /\ PixelsOf(heap["rf"]) = (2..4) \X (2..4)

\* C19: when Rectangle(x, y, w, h) is drawn unfilled and filled, every pixel
\* the unfilled one set is set by the filled one, and the unfilled one set
\* exactly the perimeter of [x, x + w) x [y, y + h) (inside the surface).
C19_BordersAgreeWithFill ==
    (~is_dirty["ru"] /\ ~is_dirty["rf"]) =>
        /\ PixelsOf(heap["ru"]) \subseteq PixelsOf(heap["rf"])
        /\ PixelsOf(heap["ru"]) = Perimeter(geom["ru"]) \cap Surface(heap["ru"])

FilledTriangleDrawn == lastOp = "draw" /\ lastObj = "t" /\ fill["t"]

\* the vertices of q = <<x1, y1, x2, y2, x3, y3>> are not on one line
NonDegenerate(q) ==
    (q[3] - q[1]) * (q[6] - q[2]) - (q[5] - q[1]) * (q[4] - q[2]) # 0

\* the x (fractions) at which row y meets the edges of q that are not horizontal
Crossings(q, y) ==
    {Intersect(Edges(q)[k], y) :
        k \in {i \in 1..3 : /\ Edges(q)[i][2] # Edges(q)[i][4]
                             /\ Min(Edges(q)[i][2], Edges(q)[i][4]) <= y
                             /\ y <= Max(Edges(q)[i][2], Edges(q)[i][4])}}

Leftmost(xs) == CHOOSE a \in xs : \A b \in xs : ~Less(b, a)
Rightmost(xs) == CHOOSE a \in xs : \A b \in xs : ~Less(a, b)

\* C17: a drawn filled Triangle whose vertices are not on one line has, on every
\* row y of [ymin, ymax], exactly the pixels of the inclusive span from the
\* rounded leftmost to the rounded rightmost intersection of the row with the
\* triangle's edges set.
C17_TwoSmallestIsSafe ==
    (FilledTriangleDrawn /\ NonDegenerate(geom["t"])) =>
        \A pix \in {PixelsOf(heap["t"])}, q \in {geom["t"]} :
            \A y \in Min(q[2], Min(q[4], q[6]))..Max(q[2], Max(q[4], q[6])) :
                {c \in pix : c[2] = y} =
                    Block(RoundHalfEven(Leftmost(Crossings(q, y)))..
                          RoundHalfEven(Rightmost(Crossings(q, y))), {y})
                    \cap Surface(heap["t"])

\* C18: a drawn filled Triangle with exactly two vertices on a row Y and the
\* third on another row has every pixel of row Y between those two vertices,
\* both included, set.
C18_HorizontalEdgeRowKept ==
    FilledTriangleDrawn =>
        \A pix \in {PixelsOf(heap["t"])}, q \in {geom["t"]} :
            \A i \in 1..3, j \in 1..3, k \in 1..3 :
                (/\ i < j /\ k # i /\ k # j
                 /\ q[2 * i] = q[2 * j] /\ q[2 * k] # q[2 * i])
                => Block(Min(q[2 * i - 1], q[2 * j - 1])..Max(q[2 * i - 1], q[2 * j - 1]),
                         {q[2 * i]}) \cap Surface(heap["t"]) \subseteq pix

C18_Witness ==
    /\ FilledTriangleDrawn
    /\ geom["t"] = <<0, 0, 3, 0, 0, 3>>
    /\ PixelsOf(heap["t"]) = {<<0, 0>>, <<1, 0>>, <<2, 0>>, <<3, 0>>, <<0, 1>>,
                               <<1, 1>>, <<2, 1>>, <<0, 2>>, <<1, 2>>, <<0, 3>>}

----------------------------------------------------------------------------
(* Properties of GraphicsBuffer.reverse *)

\* C16: reverse() of a container flips every bit of every word of the
\* container's accumulator, leaves the words of every other drawable and every
\* dirty flag as they were, and the second of two reverse() calls in a row
\* restores the accumulator.
C16_ReverseOnlyAccumulator ==
    [][lastOp' = "reverse" =>
          /\ PixelsOf(heap'[lastObj']) =
                 Surface(heap[lastObj']) \ PixelsOf(heap[lastObj'])
          /\ \A o \in Drawables \ {lastObj'} : heap'[o] = heap[o]
          /\ is_dirty' = is_dirty
          /\ revRun' = 2 => heap'[lastObj'] = revBase']_vars

C16_Witness ==
    /\ lastOp = "reverse" /\ lastObj = "g"
    /\ revRun = 2
    /\ children["g"] = <<"a", "b">>
    /\ ~is_dirty["a"] /\ ~is_dirty["b"]
    /\ PixelsOf(heap["g"]) # {}
    /\ heap["g"] = revBase

====
